---- MODULE Spec2Model ----
(***************************************************************************)
(* Model of AnonymityEngine (src/anonymity_engine.py): the Tor IP rotation *)
(* controller TorIPChanger, its IP verifier get_current_ip, its reload     *)
(* routine change_ip, its initialization and the entry point main.         *)
(*                                                                         *)
(* Python strings are sequences of one-character strings, so that strip,   *)
(* split, startswith, int() and json.loads are computed, not assumed.      *)
(***************************************************************************)
EXTENDS Integers, Sequences, FiniteSets, TLC

(***************************************************************************)
(* Bounds of the model                                                     *)
(***************************************************************************)
\* largest change budget the operator enters; also the cap on the counter
\* of an unbounded (budget 0) run
MaxCount == 2
\* number of shutdown signals delivered in one run
MaxSignals == 2
\* number of rejected answers to one operator prompt
MaxRejects == 1
\* most dot-separated segments of a body handed to _is_valid_ip on its own
MaxSegs == 5

(***************************************************************************)
(* TorConfig defaults                                                      *)
(***************************************************************************)
retry_attempts == 3
min_interval == 10
max_interval == 3600

\* Python None, beside the strings: no sequence of characters equals it
None == <<"None">>

(***************************************************************************)
(* Python string primitives                                                *)
(***************************************************************************)
Whitespace == {" ", "\n", "\t", "\r"}

DigitChars == <<"0", "1", "2", "3", "4", "5", "6", "7", "8", "9">>

IsDigit(c) == \E i \in 1..10 : DigitChars[i] = c

DigitVal(c) == (CHOOSE i \in 1..10 : DigitChars[i] = c) - 1

\* str.lstrip() / str.rstrip() / str.strip() with no argument
RECURSIVE LStrip(_)
LStrip(s) == IF s # <<>> /\ Head(s) \in Whitespace THEN LStrip(Tail(s)) ELSE s

RECURSIVE RStrip(_)
RStrip(s) ==
    IF s # <<>> /\ s[Len(s)] \in Whitespace
    THEN RStrip(SubSeq(s, 1, Len(s) - 1))
    ELSE s

Strip(s) == RStrip(LStrip(s))

\* index of the first occurrence of character c in s at or after i, 0 if none
RECURSIVE FindChar(_, _, _)
FindChar(s, c, i) ==
    IF i > Len(s) THEN 0
    ELSE IF s[i] = c THEN i
    ELSE FindChar(s, c, i + 1)

\* str.split(sep) for a one-character separator: always at least one part
RECURSIVE Split(_, _)
Split(s, sep) ==
    LET k == FindChar(s, sep, 1)
    IN  IF k = 0 THEN <<s>>
        ELSE <<SubSeq(s, 1, k - 1)>> \o Split(SubSeq(s, k + 1, Len(s)), sep)

\* value of a run of decimal digits and underscores, underscores skipped
RECURSIVE DigitsValue(_, _)
DigitsValue(s, acc) ==
    IF s = <<>> THEN acc
    ELSE IF Head(s) = "_" THEN DigitsValue(Tail(s), acc)
    ELSE DigitsValue(Tail(s), 10 * acc + DigitVal(Head(s)))

\* the literal int() accepts after the sign: digits, single underscores
\* only between digits
IsIntLiteral(s) ==
    /\ s # <<>>
    /\ IsDigit(s[1])
    /\ IsDigit(s[Len(s)])
    /\ \A i \in 1..Len(s) : IsDigit(s[i]) \/ s[i] = "_"
    /\ \A i \in 1..(Len(s) - 1) : ~(s[i] = "_" /\ s[i + 1] = "_")

\* int(s): [ok |-> FALSE] stands for ValueError
PyInt(s) ==
    LET t == Strip(s)
        signed == t # <<>> /\ Head(t) \in {"+", "-"}
        body == IF signed THEN Tail(t) ELSE t
    IN  IF IsIntLiteral(body)
        THEN [ok |-> TRUE,
              val |-> IF signed /\ Head(t) = "-"
                      THEN 0 - DigitsValue(body, 0)
                      ELSE DigitsValue(body, 0)]
        ELSE [ok |-> FALSE, val |-> 0]

(***************************************************************************)
(* json.loads on the bodies the IP-echo services send: an object with at   *)
(* most one member, whose key is a string without escapes and whose value  *)
(* is a string without escapes or an unsigned integer.  Anything else is   *)
(* JSONDecodeError ([ok |-> FALSE]).                                       *)
(***************************************************************************)
Quote == "\""

JsonError == [ok |-> FALSE, key |-> <<>>, isStr |-> FALSE, val |-> <<>>, empty |-> FALSE]

JsonMember(inner) ==
    LET k2 == FindChar(inner, Quote, 2)
        rest == IF k2 = 0 THEN <<>> ELSE LStrip(SubSeq(inner, k2 + 1, Len(inner)))
        v == IF rest = <<>> THEN <<>> ELSE LStrip(Tail(rest))
    IN  IF inner[1] # Quote \/ k2 = 0 \/ rest = <<>> THEN JsonError
        ELSE IF Head(rest) # ":" \/ v = <<>> THEN JsonError
        ELSE IF Head(v) = Quote
        THEN IF Len(v) >= 2 /\ FindChar(v, Quote, 2) = Len(v)
                  /\ FindChar(v, "\\", 1) = 0
             THEN [ok |-> TRUE, key |-> SubSeq(inner, 2, k2 - 1), isStr |-> TRUE,
                   val |-> SubSeq(v, 2, Len(v) - 1), empty |-> FALSE]
             ELSE JsonError
        ELSE IF \A i \in 1..Len(v) : IsDigit(v[i])
        THEN [ok |-> TRUE, key |-> SubSeq(inner, 2, k2 - 1), isStr |-> FALSE,
              val |-> v, empty |-> FALSE]
        ELSE JsonError

JsonLoads(s) ==
    LET t == Strip(s)
        inner == IF Len(t) >= 2 THEN Strip(SubSeq(t, 2, Len(t) - 1)) ELSE <<>>
    IN  IF Len(t) < 2 \/ t[1] # "{" \/ t[Len(t)] # "}" THEN JsonError
        ELSE IF inner = <<>>
        THEN [ok |-> TRUE, key |-> <<>>, isStr |-> FALSE, val |-> <<>>, empty |-> TRUE]
        ELSE JsonMember(inner)

OriginKey == <<"o", "r", "i", "g", "i", "n">>

(***************************************************************************)
(* TorIPChanger._is_valid_ip.  The result is "True", "False", or "raise"   *)
(* when an exception other than ValueError / JSONDecodeError leaves the    *)
(* method (AttributeError: the origin value is not a string).              *)
(***************************************************************************)
\* parts = ip.split('.'); len(parts) == 4 and all(0 <= int(part) <= 255 ...)
DottedQuad_NoUpperBound(ip) ==
    LET parts == Split(ip, ".")
    IN  /\ Len(parts) = 4
        /\ \A i \in 1..4 : PyInt(parts[i]).ok /\ PyInt(parts[i]).val >= 0

DottedQuad(ip) ==
    LET parts == Split(ip, ".")
    IN  /\ Len(parts) = 4
        /\ \A i \in 1..4 : PyInt(parts[i]).ok
                           /\ PyInt(parts[i]).val >= 0
                           /\ PyInt(parts[i]).val <= 255

\* data.get('origin', '').split(',')[0].strip()
OriginFirst(data) ==
    IF data.empty \/ data.key # OriginKey THEN <<>>
    ELSE Strip(Split(data.val, ",")[1])

is_valid_ip(ip) ==
    IF ip # <<>> /\ Head(ip) = "{"
    THEN LET data == JsonLoads(ip)
         IN  IF ~data.ok THEN "False"
             ELSE IF ~data.empty /\ data.key = OriginKey /\ ~data.isStr THEN "raise"
             ELSE IF DottedQuad(OriginFirst(data)) THEN "True" ELSE "False"
    ELSE IF DottedQuad(ip) THEN "True" ELSE "False"

(***************************************************************************)
(* Response bodies of the IP-echo services                                 *)
(***************************************************************************)
IP_A == <<"1", ".", "2", ".", "3", ".", "4">>
IP_B == <<"5", ".", "6", ".", "7", ".", "8">>
\* a plain-text service ends its body with a newline
BODY_A_NL == <<"1", ".", "2", ".", "3", ".", "4", "\n">>
\* httpbin.org/ip
BODY_JSON == <<"{", "\"", "o", "r", "i", "g", "i", "n", "\"", ":", " ", "\"", "1", ".", "2", ".", "3", ".", "4", ",", " ", "5", ".", "6", ".", "7", ".", "8", "\"", "}">>
BODY_BIG == <<"9", "9", "9", ".", "1", ".", "1", ".", "1">>
BODY_SHORT == <<"1", ".", "2", ".", "3">>
BODY_BADJSON == <<"{", "o", "o", "p", "s">>
BODY_JSONNUM == <<"{", "\"", "o", "r", "i", "g", "i", "n", "\"", ":", " ", "5", "}">>
BODY_HTML == <<"<", "h", "t", "m", "l", ">">>

Bodies == {BODY_A_NL, IP_B, BODY_JSON, BODY_BIG, BODY_SHORT, BODY_BADJSON,
           BODY_JSONNUM, BODY_HTML}

(***************************************************************************)
(* Outcomes of the external collaborators                                  *)
(***************************************************************************)
\* self.ip_check_services, in list order
ip_check_services == <<"checkip.amazonaws.com", "ipinfo.io/ip", "icanhazip.com",
                       "httpbin.org/ip">>

NumServices == Len(ip_check_services)

\* session.get: an exception (timeout, connection error) or a response
Responses ==
    {[kind |-> "timeout", status |-> 0, body |-> <<>>],
     [kind |-> "connerr", status |-> 0, body |-> <<>>],
     [kind |-> "response", status |-> 503, body |-> BODY_HTML]}
    \cup {[kind |-> "response", status |-> 200, body |-> b] : b \in Bodies}

\* subprocess.run: exit status 0, another exit status, TimeoutExpired, or
\* OSError (the command cannot be launched)
RunOutcomes == {"rc0", "nonzero", "timeout", "oserror"}

(***************************************************************************)
(* State                                                                   *)
(***************************************************************************)
VARIABLES
    pc,          \* position of the main thread
    exitCode,    \* process exit code, -1 while running
    riResult,    \* return value of run_interactive
    running,     \* self.running
    current_ip,  \* self.current_ip
    changes,     \* local changes of run_interactive
    count,       \* local count of run_interactive
    interval,    \* local interval of run_interactive
    rejects,     \* rejected answers to the prompt being shown
    startLog,    \* start methods ensure_tor_running has tried
    testSite,    \* caller of _test_tor_connection
    mech,        \* change_ip: the reload mechanism to try next
    ciLog,       \* change_ip: mechanisms tried in this call, with outcomes
    ciResult,    \* change_ip: return value
    retSite,     \* caller of get_current_ip
    svc,         \* get_current_ip: index of service
    attempt,     \* get_current_ip: attempt
    reqLog,      \* get_current_ip: requests issued in this call
    lastReq,     \* get_current_ip: how the latest request ended
    allTimedOut, \* get_current_ip: every request of this call to the service
                 \* of the latest request timed out
    gciResult,   \* get_current_ip: return value
    gciExit,     \* get_current_ip: "return" or "raise"
    summaries,   \* how many times the final summary was printed
    signals,     \* shutdown signals handled
    sleepSig,    \* a shutdown signal was handled during the interval sleep
    usagePrinted,\* main printed the usage text (-h / --help)
    initStatus,  \* initialize: "none", the step whose check failed, or "ok"
    lastInput,   \* the latest answer to an operator prompt
    lastProbe,   \* result of the latest get_current_ip that returned an IP
    vParts,      \* _is_valid_ip on its own: the segments the argument was written from
    vIn,         \* _is_valid_ip on its own: the argument
    vOut         \* _is_valid_ip on its own: the result

vars == <<pc, exitCode, riResult, running, current_ip, changes, count, interval,
          rejects, startLog, testSite, mech, ciLog, ciResult, retSite, svc,
          attempt, reqLog, lastReq, allTimedOut, gciResult, gciExit,
          summaries, signals, sleepSig, usagePrinted, initStatus, lastInput,
          lastProbe,
          vParts, vIn, vOut>>

mainVars == <<exitCode, riResult>>
sessionVars == <<current_ip, changes, count, interval, rejects, summaries>>
initVars == <<startLog, testSite>>
ciVars == <<mech, ciLog, ciResult>>
gciVars == <<retSite, svc, attempt, reqLog, lastReq, allTimedOut, gciResult, gciExit>>
sigVars == <<running, signals, sleepSig>>
traceVars == <<usagePrinted, initStatus, lastInput>>
pureVars == <<vParts, vIn, vOut>>

NoReq == [kind |-> "none", slept |-> FALSE]

\* the fields and locals before main() has run
InitialFields ==
    /\ exitCode = -1
    /\ riResult = FALSE
    /\ running = FALSE
    /\ current_ip = None
    /\ changes = 0
    /\ count = 0
    /\ interval = 0
    /\ rejects = 0
    /\ startLog = <<>>
    /\ testSite = "none"
    /\ mech = 1
    /\ ciLog = <<>>
    /\ ciResult = FALSE
    /\ retSite = "none"
    /\ svc = 1
    /\ attempt = 0
    /\ reqLog = <<>>
    /\ lastReq = NoReq
    /\ allTimedOut = FALSE
    /\ gciResult = None
    /\ gciExit = "return"
    /\ summaries = 0
    /\ signals = 0
    /\ sleepSig = FALSE
    /\ usagePrinted = FALSE
    /\ initStatus = "none"
    /\ lastInput = <<>>
    /\ lastProbe = None

\* TorIPChanger.__init__ has not run: the state before main()
Init ==
    /\ pc = "main"
    /\ InitialFields
    /\ vParts = <<>>
    /\ vIn = <<>>
    /\ vOut = "none"

(***************************************************************************)
(* main() and TorIPChanger.initialize                                      *)
(***************************************************************************)
\* run_interactive returns val to main
RiReturn(val) ==
    /\ pc' = "ri_ret"
    /\ riResult' = val

\* entry of get_current_ip, called from site
CallGci(site) ==
    /\ pc' = "gci"
    /\ retSite' = site
    /\ svc' = 1
    /\ attempt' = 0
    /\ reqLog' = <<>>
    /\ lastReq' = NoReq
    /\ allTimedOut' = FALSE
    /\ gciResult' = None
    /\ gciExit' = "return"

\* the caller has taken the result of get_current_ip: its locals are gone
GciDone ==
    /\ retSite' = "none"
    /\ svc' = 1
    /\ attempt' = 0
    /\ reqLog' = <<>>
    /\ lastReq' = NoReq
    /\ allTimedOut' = FALSE
    /\ gciResult' = None
    /\ gciExit' = "return"

\* main up to the call of run_interactive: -h/--help prints the usage and
\* returns; otherwise the controller is constructed (signal handlers are
\* installed, running is False) and the banner is displayed
MainStart ==
    /\ pc = "main"
    /\ \E help \in BOOLEAN :
          IF help
          THEN /\ pc' = "exited"
               /\ exitCode' = 0
               /\ usagePrinted' = TRUE
               /\ UNCHANGED running
          ELSE /\ pc' = "init_sysreq"
               /\ running' = FALSE
               /\ UNCHANGED <<exitCode, usagePrinted>>
    /\ UNCHANGED <<riResult, sessionVars, initVars, ciVars, gciVars, signals, sleepSig>>
    /\ UNCHANGED <<initStatus, lastInput, pureVars, lastProbe>>

\* initialize: check_system_requirements
CheckSystemRequirements ==
    /\ pc = "init_sysreq"
    /\ \E ok \in BOOLEAN :
          IF ok
          THEN pc' = "init_deps" /\ UNCHANGED <<riResult, initStatus>>
          ELSE RiReturn(FALSE) /\ initStatus' = "sysreq"
    /\ UNCHANGED <<exitCode, sessionVars, initVars, ciVars, gciVars, sigVars>>
    /\ UNCHANGED <<usagePrinted, lastInput, pureVars, lastProbe>>

\* initialize: ensure_dependencies
EnsureDependencies ==
    /\ pc = "init_deps"
    /\ \E ok \in BOOLEAN :
          IF ok
          THEN pc' = "init_perm" /\ UNCHANGED <<riResult, initStatus>>
          ELSE RiReturn(FALSE) /\ initStatus' = "deps"
    /\ UNCHANGED <<exitCode, sessionVars, initVars, ciVars, gciVars, sigVars>>
    /\ UNCHANGED <<usagePrinted, lastInput, pureVars, lastProbe>>

\* what check_permissions does with the outcome of `systemctl is-active`:
\* subprocess.run without check=True returns for every exit status; an
\* OSError is no CalledProcessError and leaves the method
PermissionsProbe(outcome) ==
    IF outcome \in {"rc0", "nonzero"} THEN "return" ELSE "raise"

\* initialize: check_permissions (its return value is not used).  An
\* exception leaves initialize and run_interactive, whose try block starts
\* after the call of initialize, and is caught in main: exit code 1
CheckPermissions ==
    /\ pc = "init_perm"
    /\ \E outcome \in {"rc0", "nonzero", "oserror"} :
          IF PermissionsProbe(outcome) = "return"
          THEN pc' = "etr_query" /\ UNCHANGED exitCode
          ELSE pc' = "exited" /\ exitCode' = 1
    /\ UNCHANGED <<riResult, sessionVars, initVars, ciVars, gciVars, sigVars>>
    /\ UNCHANGED <<traceVars, pureVars, lastProbe>>

\* ensure_tor_running: systemctl is-active
EtrQuery ==
    /\ pc = "etr_query"
    /\ \E outcome \in {"active", "inactive", "oserror"} :
          CASE outcome = "active" -> pc' = "init_test" /\ testSite' = "init"
            [] outcome = "inactive" -> pc' = "etr_sudo" /\ UNCHANGED testSite
            [] OTHER -> pc' = "manual" /\ UNCHANGED testSite
    /\ startLog' = <<>>
    /\ UNCHANGED <<mainVars, sessionVars, ciVars, gciVars, sigVars>>
    /\ UNCHANGED <<traceVars, pureVars, lastProbe>>

\* where ensure_tor_running goes after a start command: "started" (return
\* True), "user" (the except CalledProcessError clause) or "manual" (the
\* outer except Exception clause, also for an exception raised inside the
\* inner except clause)
AfterStart(method, outcome) ==
    CASE outcome = "rc0" -> "started"
      [] outcome = "nonzero" /\ method = "sudo" -> "user"
      [] OTHER -> "manual"

\* ensure_tor_running: sudo systemctl start, check=True, timeout=30
EtrSudoStart ==
    /\ pc = "etr_sudo"
    /\ \E outcome \in RunOutcomes :
          CASE AfterStart("sudo", outcome) = "started" ->
                   pc' = "init_test" /\ testSite' = "init"
            [] AfterStart("sudo", outcome) = "user" ->
                   pc' = "etr_user" /\ UNCHANGED testSite
            [] OTHER -> pc' = "manual" /\ UNCHANGED testSite
    /\ startLog' = Append(startLog, "sudo")
    /\ UNCHANGED <<mainVars, sessionVars, ciVars, gciVars, sigVars>>
    /\ UNCHANGED <<traceVars, pureVars, lastProbe>>

\* ensure_tor_running: systemctl --user start, check=True, timeout=30
EtrUserStart ==
    /\ pc = "etr_user"
    /\ \E outcome \in RunOutcomes :
          CASE AfterStart("user", outcome) = "started" ->
                   pc' = "init_test" /\ testSite' = "init"
            [] OTHER -> pc' = "manual" /\ UNCHANGED testSite
    /\ startLog' = Append(startLog, "user")
    /\ UNCHANGED <<mainVars, sessionVars, ciVars, gciVars, sigVars>>
    /\ UNCHANGED <<traceVars, pureVars, lastProbe>>

\* _start_tor_manually: Popen(['tor']), sleep(5), then _test_tor_connection
StartTorManually ==
    /\ pc = "manual"
    /\ \E launched \in BOOLEAN :
          IF launched
          THEN /\ pc' = "init_test"
               /\ testSite' = "manual"
               /\ UNCHANGED <<riResult, initStatus>>
          ELSE /\ RiReturn(FALSE)
               /\ initStatus' = "tor"
               /\ UNCHANGED testSite
    /\ startLog' = Append(startLog, "manual")
    /\ UNCHANGED <<exitCode, sessionVars, ciVars, gciVars, sigVars>>
    /\ UNCHANGED <<usagePrinted, lastInput, pureVars, lastProbe>>

TorConnectionWorks_Always(resp) == TRUE

\* _test_tor_connection: True exactly for a response with status 200
TorConnectionWorks(resp) == resp.kind = "response" /\ resp.status = 200

\* _test_tor_connection, called from _start_tor_manually (its result is the
\* result of ensure_tor_running) or from initialize (its result is the
\* result of initialize); after initialize, run_interactive takes the
\* baseline probe
TestTorConnection ==
    /\ pc = "init_test"
    /\ \E resp \in Responses :
          /\ initStatus' =
                IF resp.kind = "response" /\ resp.status = 200
                THEN (IF testSite = "manual" THEN initStatus ELSE "ok")
                ELSE (IF testSite = "manual" THEN "tor" ELSE "selftest")
          /\ IF ~TorConnectionWorks(resp)
             THEN RiReturn(FALSE) /\ UNCHANGED <<initVars, gciVars>>
             ELSE IF testSite = "manual"
             THEN /\ pc' = "init_test"
                  /\ testSite' = "init"
                  /\ UNCHANGED <<riResult, startLog, gciVars>>
             ELSE /\ CallGci("baseline")
                  /\ startLog' = <<>>
                  /\ UNCHANGED <<riResult, testSite>>
    /\ UNCHANGED <<exitCode, sessionVars, ciVars, sigVars>>
    /\ UNCHANGED <<usagePrinted, lastInput, pureVars, lastProbe>>

(***************************************************************************)
(* TorIPChanger.get_current_ip                                             *)
(***************************************************************************)
\* the exception the try block of one attempt raises, "none" if it does not:
\* session.get raises, or _is_valid_ip does on a body with status 200
AttemptRaises(resp) ==
    IF resp.kind # "response" THEN resp.kind
    ELSE IF resp.status = 200 /\ is_valid_ip(Strip(resp.body)) = "raise"
    THEN "attribute"
    ELSE "none"

\* an except clause for the exceptions of the request only
ExceptClauseCatches_RequestOnly(exc) == exc \in {"timeout", "connerr"}

\* except Exception as e
ExceptClauseCatches(exc) == exc \in {"timeout", "connerr", "attribute"}

\* an attempt that does not return on a valid body
AttemptOutcome_NoReturn(resp) ==
    IF resp.kind # "response" \/ is_valid_ip(Strip(resp.body)) = "raise"
    THEN "except"
    ELSE "next"

\* how one attempt ends: "return" (status 200 and a valid body: return ip),
\* "except" (the except clause runs), "raise" (an exception leaves the
\* method), "next" (the attempt falls out of the try block)
AttemptOutcome(resp) ==
    IF AttemptRaises(resp) # "none"
    THEN (IF ExceptClauseCatches(AttemptRaises(resp)) THEN "except" ELSE "raise")
    ELSE IF resp.status = 200 /\ is_valid_ip(Strip(resp.body)) = "True"
    THEN "return"
    ELSE "next"

\* the except clause sleeps 2 seconds unless the attempt was the last one
Backoff(outcome, att) == outcome = "except" /\ att < retry_attempts - 1

\* a retry loop that is one attempt short
MoreAttempts_OneShort(att) == att + 1 < retry_attempts - 1

\* for attempt in range(self.config.retry_attempts)
MoreAttempts(att) == att + 1 < retry_attempts

\* for service in self.ip_check_services
MoreServices(s) == s + 1 <= NumServices

\* what the latest request was, for the record of the call
ReqKind(resp) ==
    CASE resp.kind # "response" -> resp.kind
      [] resp.status # 200 -> "status"
      [] is_valid_ip(Strip(resp.body)) = "True" -> "accepted"
      [] is_valid_ip(Strip(resp.body)) = "raise" -> "badbody"
      [] OTHER -> "invalid"

\* ip = response.text.strip()
ResponseIp(resp) == Strip(resp.body)

\* the three operators above, tabulated over the responses
AttemptTable ==
    [resp \in Responses |->
        [outcome |-> AttemptOutcome(resp), kind |-> ReqKind(resp),
         ip |-> ResponseIp(resp)]]

\* one iteration of the inner loop: the request, its handling, the backoff
GciAttempt ==
    /\ pc = "gci"
    /\ \E resp \in Responses :
          LET outcome == AttemptTable[resp].outcome
          IN  /\ reqLog' = Append(reqLog, [svc |-> svc, attempt |-> attempt])
              /\ lastReq' = [kind |-> AttemptTable[resp].kind,
                             slept |-> Backoff(outcome, attempt)]
              /\ allTimedOut' = (resp.kind = "timeout" /\ (attempt = 0 \/ allTimedOut))
              /\ IF outcome = "return"
                 THEN /\ pc' = "gci_ret"
                      /\ gciResult' = AttemptTable[resp].ip
                      /\ UNCHANGED <<svc, attempt, gciExit>>
                 ELSE IF outcome = "raise"
                 THEN /\ pc' = "gci_ret"
                      /\ gciExit' = "raise"
                      /\ UNCHANGED <<svc, attempt, gciResult>>
                 ELSE IF MoreAttempts(attempt)
                 THEN /\ attempt' = attempt + 1
                      /\ UNCHANGED <<pc, svc, gciResult, gciExit>>
                 ELSE IF MoreServices(svc)
                 THEN /\ svc' = svc + 1
                      /\ attempt' = 0
                      /\ UNCHANGED <<pc, gciResult, gciExit>>
                 ELSE /\ pc' = "gci_ret"
                      /\ gciResult' = None
                      /\ UNCHANGED <<svc, attempt, gciExit>>
    /\ UNCHANGED <<mainVars, sessionVars, initVars, ciVars, retSite, sigVars>>
    /\ UNCHANGED <<traceVars, pureVars, lastProbe>>

(***************************************************************************)
(* run_interactive: the baseline probe and the operator prompts            *)
(***************************************************************************)
\* decimal text of a natural number, as the operator types it
RECURSIVE NatToStr(_)
NatToStr(n) ==
    IF n < 10 THEN <<DigitChars[n + 1]>>
    ELSE NatToStr(n \div 10) \o <<DigitChars[(n % 10) + 1]>>

validate_input_NoRange(value, min_val, max_val) ==
    LET v == PyInt(value)
    IN  IF v.ok THEN [ok |-> TRUE, val |-> v.val] ELSE [ok |-> FALSE, val |-> 0]

\* validate_input: [ok |-> FALSE] stands for ValueError
validate_input(value, min_val, max_val) ==
    LET v == PyInt(value)
    IN  IF v.ok /\ ~(v.val < min_val \/ v.val > max_val)
        THEN [ok |-> TRUE, val |-> v.val]
        ELSE [ok |-> FALSE, val |-> 0]

\* the count prompt: "0" is compared as text before validate_input(1, 9999)
ValidateCount(count_input) ==
    IF count_input = <<"0">> THEN [ok |-> TRUE, val |-> 0]
    ELSE validate_input(count_input, 1, 9999)

\* input() raises EOFError when standard input is closed
EOF == <<"E", "O", "F">>

IntervalInputs ==
    {NatToStr(5), NatToStr(min_interval), NatToStr(max_interval), NatToStr(3601),
     <<"a", "b", "c">>, <<>>}

CountInputs ==
    {NatToStr(n) : n \in 0..MaxCount}
    \cup {NatToStr(10000), <<"-", "1">>, <<" ", "0">>, <<"a", "b", "c">>}

\* initial_ip = self.get_current_ip(); an exception would be caught by the
\* except Exception clause of run_interactive (return False)
BaselineAssign ==
    /\ pc = "gci_ret"
    /\ retSite = "baseline"
    /\ IF gciExit = "raise"
       THEN RiReturn(FALSE) /\ UNCHANGED current_ip
       ELSE /\ pc' = "prompt_interval"
            /\ current_ip' = IF gciResult # None THEN gciResult ELSE current_ip
            /\ UNCHANGED riResult
    /\ GciDone
    /\ UNCHANGED <<exitCode, changes, count, interval, rejects, summaries,
                   initVars, ciVars, sigVars>>
    /\ lastProbe' = IF gciExit = "return" /\ gciResult # None THEN gciResult ELSE lastProbe
    /\ UNCHANGED <<traceVars, pureVars>>

\* the interval prompt loop: one input() and its validation
PromptInterval ==
    /\ pc = "prompt_interval"
    /\ \E inp \in IntervalInputs \cup {EOF} :
          /\ lastInput' = inp
          /\ IF inp = EOF
             THEN RiReturn(FALSE) /\ UNCHANGED <<interval, rejects>>
             ELSE LET v == validate_input(inp, min_interval, max_interval)
                  IN  IF v.ok
                      THEN /\ interval' = v.val
                           /\ rejects' = 0
                           /\ pc' = "prompt_count"
                           /\ UNCHANGED riResult
                      ELSE /\ rejects < MaxRejects
                           /\ rejects' = rejects + 1
                           /\ UNCHANGED <<pc, riResult, interval>>
    /\ UNCHANGED <<exitCode, current_ip, changes, count, summaries,
                   initVars, ciVars, gciVars, sigVars>>
    /\ UNCHANGED <<usagePrinted, initStatus, pureVars, lastProbe>>

\* the count prompt loop: one input() and its validation
PromptCount ==
    /\ pc = "prompt_count"
    /\ \E inp \in CountInputs \cup {EOF} :
          /\ lastInput' = inp
          /\ IF inp = EOF
             THEN RiReturn(FALSE) /\ UNCHANGED <<count, rejects>>
             ELSE LET v == ValidateCount(inp)
                  IN  IF v.ok
                      THEN /\ count' = v.val
                           /\ rejects' = 0
                           /\ pc' = "loop_start"
                           /\ UNCHANGED riResult
                      ELSE /\ rejects < MaxRejects
                           /\ rejects' = rejects + 1
                           /\ UNCHANGED <<pc, riResult, count>>
    /\ UNCHANGED <<exitCode, current_ip, changes, interval, summaries,
                   initVars, ciVars, gciVars, sigVars>>
    /\ UNCHANGED <<usagePrinted, initStatus, pureVars, lastProbe>>

\* self.running = True; changes = 0
StartRotation ==
    /\ pc = "loop_start"
    /\ running' = TRUE
    /\ changes' = 0
    /\ pc' = "loop_while"
    /\ lastInput' = <<>>
    /\ UNCHANGED <<mainVars, current_ip, count, interval, rejects, summaries,
                   initVars, ciVars, gciVars, signals, sleepSig>>
    /\ UNCHANGED <<usagePrinted, initStatus, pureVars, lastProbe>>

(***************************************************************************)
(* TorIPChanger.change_ip                                                  *)
(***************************************************************************)
\* the commands, in the order of the method body
ReloadMechanisms == <<"systemctl reload", "service reload", "pkill -HUP">>

\* a first mechanism whose success does not return
AfterReload_NoReturn(m, outcome) ==
    CASE outcome \in {"timeout", "oserror"} -> "false"
      [] m = 1 -> "next"
      [] m = 2 /\ outcome = "nonzero" -> "next"
      [] OTHER -> "true"

\* what follows the subprocess.run of mechanism m: "true" (sleep(2), return
\* True), "next" (fall through to the code after its try statement), "false"
\* (the outer except Exception clause: return False).  Mechanisms 1 and 2
\* test returncode; mechanism 3 does not.  subprocess.run has no check=True,
\* so the inner except CalledProcessError clauses never run, and
\* TimeoutExpired and OSError reach the outer clause
AfterReload(m, outcome) ==
    CASE outcome \in {"timeout", "oserror"} -> "false"
      [] m < 3 /\ outcome = "rc0" -> "true"
      [] m < 3 /\ outcome = "nonzero" -> "next"
      [] OTHER -> "true"

\* one reload mechanism: the command, the test of its result, the settle wait
ChangeIpStep ==
    /\ pc = "ci"
    /\ \E outcome \in RunOutcomes :
          /\ ciLog' = Append(ciLog, [mech |-> mech, outcome |-> outcome])
          /\ CASE AfterReload(mech, outcome) = "true" ->
                     pc' = "ci_ret" /\ ciResult' = TRUE /\ UNCHANGED mech
               [] AfterReload(mech, outcome) = "next" /\ mech < Len(ReloadMechanisms) ->
                     mech' = mech + 1 /\ UNCHANGED <<pc, ciResult>>
               [] OTHER ->
                     pc' = "ci_ret" /\ ciResult' = FALSE /\ UNCHANGED mech
    /\ UNCHANGED <<mainVars, sessionVars, initVars, gciVars, sigVars>>
    /\ UNCHANGED <<traceVars, pureVars, lastProbe>>

(***************************************************************************)
(* run_interactive: the rotation loop                                      *)
(***************************************************************************)
\* a budget test that is off by one
BudgetReached_OffByOne(cnt, chg) == cnt > 0 /\ chg > cnt

BudgetReached_ZeroCounts(cnt, chg) == chg >= cnt

\* if count > 0 and changes >= count: break
BudgetReached(cnt, chg) == cnt > 0 /\ chg >= cnt

AfterLoopTest_IgnoreFlag(run, cnt, chg) ==
    IF BudgetReached(cnt, chg) THEN "summary" ELSE "sleep"

AfterLoopTest_RotateFirst(run, cnt, chg) ==
    IF ~run \/ BudgetReached(cnt, chg) THEN "summary" ELSE "after_sleep"

\* where the loop goes from its head: past the loop (the summary print) or
\* into time.sleep(interval)
AfterLoopTest(run, cnt, chg) ==
    IF ~run \/ BudgetReached(cnt, chg) THEN "summary" ELSE "sleep"

\* while self.running: and the budget test at the top of the body
LoopWhile ==
    /\ pc = "loop_while"
    /\ pc' = AfterLoopTest(running, count, changes)
    /\ UNCHANGED <<mainVars, sessionVars, initVars, ciVars, gciVars, sigVars>>
    /\ UNCHANGED <<traceVars, pureVars, lastProbe>>

\* time.sleep(interval) returns
IntervalSleep ==
    /\ pc = "sleep"
    /\ pc' = "after_sleep"
    /\ UNCHANGED <<mainVars, sessionVars, initVars, ciVars, gciVars, sigVars>>
    /\ UNCHANGED <<traceVars, pureVars, lastProbe>>

\* a loop that does not look at the flag after the sleep
ShutdownObserved_Never(run) == FALSE

\* if not self.running:
ShutdownObserved(run) == ~run

\* if not self.running: break; otherwise the rotation starts: change_ip()
AfterSleep ==
    /\ pc = "after_sleep"
    /\ IF ShutdownObserved(running)
       THEN pc' = "summary" /\ UNCHANGED ciVars
       ELSE /\ pc' = "ci"
            /\ mech' = 1
            /\ ciLog' = <<>>
            /\ ciResult' = FALSE
    /\ UNCHANGED <<mainVars, sessionVars, initVars, gciVars, sigVars>>
    /\ UNCHANGED <<traceVars, pureVars, lastProbe>>

\* a rotation that probes whatever change_ip returned
VerifyAfterReload_Always(res) == TRUE

\* if self.change_ip(): new_ip = self.get_current_ip()
VerifyAfterReload(res) == res

\* the branch on the result of change_ip; "Failed to change IP" ends the
\* loop body
RotationAfterReload ==
    /\ pc = "ci_ret"
    /\ IF VerifyAfterReload(ciResult)
       THEN CallGci("loop")
       ELSE pc' = "loop_while" /\ UNCHANGED gciVars
    /\ mech' = 1
    /\ ciLog' = <<>>
    /\ ciResult' = FALSE
    /\ UNCHANGED <<mainVars, sessionVars, initVars, sigVars>>
    /\ UNCHANGED <<traceVars, pureVars, lastProbe>>

\* a comparison that records the first IP only
IpChanged_OnlyFirst(new_ip, cur) == new_ip # None /\ cur = None

\* a comparison that counts a probe without result
IpChanged_CountsNone(new_ip, cur) == new_ip # cur

\* a comparison that counts every verified rotation
IpChanged_Always(new_ip, cur) == new_ip # None

\* if new_ip: if new_ip != self.current_ip:
IpChanged(new_ip, cur) == new_ip # None /\ new_ip # cur

\* the branches on the result of get_current_ip, to the end of the loop body
RotationVerify ==
    /\ pc = "gci_ret"
    /\ retSite = "loop"
    /\ IF gciExit = "raise"
       THEN RiReturn(FALSE) /\ UNCHANGED <<changes, current_ip>>
       ELSE /\ pc' = "loop_while"
            /\ IF IpChanged(gciResult, current_ip)
               THEN /\ changes < MaxCount
                    /\ changes' = changes + 1
                    /\ current_ip' = gciResult
               ELSE UNCHANGED <<changes, current_ip>>
            /\ UNCHANGED riResult
    /\ GciDone
    /\ UNCHANGED <<exitCode, count, interval, rejects, summaries, initVars, ciVars,
                   sigVars>>
    /\ lastProbe' = IF gciExit = "return" /\ gciResult # None THEN gciResult ELSE lastProbe
    /\ UNCHANGED <<traceVars, pureVars>>

\* print("IP rotation completed. Total changes: ..."); return True
Summary ==
    /\ pc = "summary"
    /\ summaries' = summaries + 1
    /\ RiReturn(TRUE)
    /\ UNCHANGED <<exitCode, current_ip, changes, count, interval, rejects,
                   initVars, ciVars, gciVars, sigVars>>
    /\ UNCHANGED <<traceVars, pureVars, lastProbe>>

ExitStatus_AlwaysZero(success) == 0

\* main: falling off the end exits with 0, sys.exit(1) with 1
ExitStatus(success) == IF success THEN 0 ELSE 1

\* main after run_interactive: sys.exit(1) unless it returned True
MainExit ==
    /\ pc = "ri_ret"
    /\ pc' = "exited"
    /\ exitCode' = ExitStatus(riResult)
    /\ UNCHANGED <<riResult, sessionVars, initVars, ciVars, gciVars, sigVars>>
    /\ UNCHANGED <<traceVars, pureVars, lastProbe>>

(***************************************************************************)
(* TorIPChanger._signal_handler                                            *)
(***************************************************************************)
\* the handlers are installed by __init__ and stay until the process exits
HandlerInstalled == pc \notin {"main", "exited"}

FlagAfterSignal_Toggle(run) == ~run

\* self.running = False
FlagAfterSignal(run) == FALSE

\* SIGINT or SIGTERM is handled between two steps of the main thread
SignalHandler ==
    /\ HandlerInstalled
    /\ signals < MaxSignals
    /\ running' = FlagAfterSignal(running)
    /\ signals' = signals + 1
    /\ sleepSig' = (sleepSig \/ pc = "sleep")
    /\ UNCHANGED <<pc, mainVars, sessionVars, initVars, ciVars, gciVars>>
    /\ UNCHANGED <<traceVars, pureVars, lastProbe>>

(***************************************************************************)
(* Specifications                                                          *)
(***************************************************************************)
MainThread ==
    \/ MainStart
    \/ CheckSystemRequirements
    \/ EnsureDependencies
    \/ CheckPermissions
    \/ EtrQuery
    \/ EtrSudoStart
    \/ EtrUserStart
    \/ StartTorManually
    \/ TestTorConnection
    \/ GciAttempt
    \/ BaselineAssign
    \/ PromptInterval
    \/ PromptCount
    \/ StartRotation
    \/ LoopWhile
    \/ IntervalSleep
    \/ AfterSleep
    \/ ChangeIpStep
    \/ RotationAfterReload
    \/ RotationVerify
    \/ Summary
    \/ MainExit

Next == MainThread \/ SignalHandler

Spec == Init /\ [][Next]_vars

\* every sleep, subprocess invocation and HTTP request returns
FairSpec == Spec /\ WF_vars(MainThread)

(***************************************************************************)
(* _is_valid_ip on its own: the argument is a body written as segments     *)
(* joined by dots, or one of a few JSON texts                              *)
(***************************************************************************)
RECURSIVE Join(_)
Join(parts) ==
    IF Len(parts) = 0 THEN <<>>
    ELSE IF Len(parts) = 1 THEN parts[1]
    ELSE parts[1] \o <<".">> \o Join(Tail(parts))

SegTexts == {<<"0">>, <<"2", "5", "5">>, <<"2", "5", "6">>, <<"x">>, <<"-", "1">>}

SegLists == UNION {[1..n -> SegTexts] : n \in 1..MaxSegs}

QUAD_OK == << <<"1", "2", "3">>, <<"4", "5">>, <<"6", "7">>, <<"8", "9">> >>
QUAD_BIG == << <<"9", "9", "9">>, <<"1">>, <<"1">>, <<"1">> >>
QUAD_PLUS == << <<"+", "1">>, <<"1">>, <<"1">>, <<"1">> >>
QUAD_SPACE == << <<"1">>, <<" ", "7">>, <<"1">>, <<"1">> >>
QUAD_UNDERSCORE == << <<"1">>, <<"1">>, <<"1", "_", "0">>, <<"1">> >>
QUAD_EMPTYSEG == << <<"1">>, <<"1">>, <<>>, <<"1">> >>
QUAD_FLOAT == << <<"1">>, <<"1">>, <<"1">>, <<"1", "e", "1">> >>
EMPTY_BODY == << <<>> >>

ExtraSegLists == {QUAD_OK, QUAD_BIG, QUAD_PLUS, QUAD_SPACE, QUAD_UNDERSCORE,
                  QUAD_EMPTYSEG, QUAD_FLOAT, EMPTY_BODY}

JSON_OPEN == <<"{">>
JSON_UNQUOTED == <<"{", "o", "o", "p", "s", "}">>
JSON_NOCOLON == <<"{", "\"", "o", "r", "i", "g", "i", "n", "\"", " ", "\"", "1", ".", "2", ".", "3", ".", "4", "\"", "}">>
JSON_UNTERMINATED == <<"{", "\"", "o", "r", "i", "g", "i", "n", "\"", ":", " ", "\"", "1", ".", "2", ".", "3", ".", "4">>

MalformedJson == {BODY_BADJSON, JSON_OPEN, JSON_UNQUOTED, JSON_NOCOLON, JSON_UNTERMINATED}

JsonInputs == MalformedJson \cup {BODY_JSON, BODY_JSONNUM}

\* a call of _is_valid_ip is about to be made
PureInit ==
    /\ pc = "validate"
    /\ InitialFields
    /\ vOut = "none"
    /\ \/ \E q \in SegLists \cup ExtraSegLists : vParts = q /\ vIn = Join(q)
       \/ \E t \in JsonInputs : vParts = <<>> /\ vIn = t

\* the call returns, or raises
Validate ==
    /\ pc = "validate"
    /\ vOut' = is_valid_ip(vIn)
    /\ pc' = "validated"
    /\ UNCHANGED <<mainVars, sessionVars, initVars, ciVars, gciVars, sigVars,
                   traceVars, lastProbe, vParts, vIn>>

PureNext == Validate

PureSpec == PureInit /\ [][PureNext]_vars

(***************************************************************************)
(* Properties                                                              *)
(***************************************************************************)
\* the main thread is inside one rotation: change_ip or the probe after it
InRotation == pc \in {"ci", "ci_ret"} \/ (pc \in {"gci", "gci_ret"} /\ retSite = "loop")

\* the loop is over
LoopOver == pc \in {"summary", "ri_ret", "exited"}

\* C1: with a change budget N > 0 the change counter never exceeds N; once
\* it has reached N the loop takes no further interval sleep, reload or
\* probe; and when the loop ends on the budget with no shutdown signal
\* delivered, the running flag is still set.
C1_BudgetStopsLoop ==
    /\ count > 0 => changes <= count
    /\ (count > 0 /\ changes >= count) => (pc = "loop_while" \/ LoopOver)
    /\ (pc = "summary" /\ count > 0 /\ changes >= count /\ signals = 0) => running

C1_Witness ==
    pc = "summary" /\ count = 2 /\ changes = 2 /\ signals = 0 /\ running

\* C2: a shutdown signal handled during the interval sleep is followed by no
\* reload and no probe request; the loop ends, and the final summary is
\* printed exactly once.
C2_SignalDuringSleep ==
    /\ [](sleepSig => (pc \in {"sleep", "after_sleep"} \/ LoopOver))
    /\ [][sleepSig => (ciLog' = ciLog /\ reqLog' = reqLog)]_vars
    /\ [](summaries <= 1)
    /\ (sleepSig ~> (pc = "exited" /\ summaries = 1))

C2_Witness ==
    sleepSig /\ pc = "exited" /\ summaries = 1 /\ exitCode = 0 /\ changes = 1

\* C3: in every rotation, a probe result different from the recorded IP adds
\* exactly 1 to the change counter and becomes the recorded IP; the same IP
\* or no IP leaves both as they were, as does every other step of a rotation.
C3_RotationCounting ==
    [][InRotation =>
         IF pc = "gci_ret" /\ pc' # pc /\ gciExit = "return"
            /\ gciResult # None /\ gciResult # current_ip
         THEN changes' = changes + 1 /\ current_ip' = gciResult
         ELSE changes' = changes /\ current_ip' = current_ip]_vars

C3_Witness ==
    /\ pc = "gci_ret" /\ retSite = "loop"
    /\ changes = 1 /\ current_ip = IP_B /\ gciResult = IP_B

\* C4: change_ip tries systemctl reload, service reload, pkill -HUP in that
\* order; a mechanism is tried only after every earlier one has been tried
\* without reporting success, and none is tried after one reported success.
C4_ReloadOrder ==
    /\ Len(ciLog) <= Len(ReloadMechanisms)
    /\ \A i \in 1..Len(ciLog) :
          /\ ReloadMechanisms[ciLog[i].mech] = ReloadMechanisms[i]
          /\ i < Len(ciLog) => ciLog[i].outcome # "rc0"
    /\ pc = "ci" => mech = Len(ciLog) + 1

C4_Witness ==
    /\ pc = "ci_ret" /\ ciResult
    /\ Len(ciLog) = 2 /\ ciLog[1].outcome = "nonzero" /\ ciLog[2].outcome = "rc0"

\* C5: change_ip returns True only if one of the three mechanisms ended
\* with exit status 0, and returns False when all three failed.
C5_SuccessNeedsExitZero ==
    pc = "ci_ret" =>
        /\ ciResult => \E i \in 1..Len(ciLog) : ciLog[i].outcome = "rc0"
        /\ (Len(ciLog) = 3 /\ \A i \in 1..3 : ciLog[i].outcome # "rc0") => ~ciResult

\* C6: a mechanism that times out or cannot be launched counts as a failed
\* attempt of that mechanism only: before change_ip returns False it has
\* tried the mechanism after it.
C6_TimeoutFallsThrough ==
    (pc = "ci_ret" /\ ~ciResult) =>
        \A i \in 1..Len(ciLog) :
            (ciLog[i].outcome \in {"timeout", "oserror"} /\ i < Len(ReloadMechanisms))
                => Len(ciLog) > i

\* C7: when change_ip returns False the verifier is not called, the change
\* counter and the recorded IP stay as they are, and the loop goes on: back
\* at the loop test the budget is not reached, and from the loop test the
\* next step is the interval sleep unless the running flag was cleared.
C7_ReloadFailureIsNotFatal ==
    [][/\ (pc = "ci_ret" /\ ~ciResult /\ pc' # pc) =>
            /\ pc' = "loop_while"
            /\ retSite' = "none" /\ reqLog' = <<>>
            /\ changes' = changes /\ current_ip' = current_ip
            /\ ~(count' > 0 /\ changes' >= count')
       /\ (pc = "loop_while" /\ pc' # pc /\ running /\ ~(count > 0 /\ changes >= count)) =>
            pc' = "sleep"]_vars

C7_Witness ==
    /\ pc = "ci_ret" /\ ~ciResult /\ running
    /\ changes = 1 /\ count = 2 /\ ciLog[Len(ciLog)].outcome = "timeout"

\* the requests of the call in progress are those of the loops: service by
\* service in list order, attempts 0, 1, ... within a service
InListOrder ==
    \A k \in 1..Len(reqLog) :
        reqLog[k] = [svc |-> ((k - 1) \div retry_attempts) + 1,
                     attempt |-> (k - 1) % retry_attempts]

\* C8: get_current_ip visits the services in list order and returns at the
\* first response with status 200 and a valid body: no request follows it.
C8_FirstValidWins ==
    /\ InListOrder
    /\ lastReq.kind = "accepted" =>
          pc = "gci_ret" /\ gciExit = "return" /\ gciResult # None
    /\ (pc = "gci_ret" /\ gciResult # None) => lastReq.kind = "accepted"

C8_Witness ==
    /\ pc = "gci_ret" /\ retSite = "loop" /\ gciResult = IP_B
    /\ Len(reqLog) = 5 /\ reqLog[5] = [svc |-> 2, attempt |-> 1]

\* number of requests of the call in progress to service s
RequestsTo(s) == Cardinality({k \in 1..Len(reqLog) : reqLog[k].svc = s})

\* C9: a service whose every request timed out gets exactly retry_attempts
\* requests, and only then does the next service get its first request (or
\* the call end, for the last service).
C9_TimeoutsUseAllAttempts ==
    /\ [][(pc = "gci" /\ reqLog # <<>> /\ allTimedOut
           /\ Len(reqLog') = Len(reqLog) + 1
           /\ reqLog'[Len(reqLog')].svc # reqLog[Len(reqLog)].svc) =>
             /\ reqLog'[Len(reqLog')] = [svc |-> reqLog[Len(reqLog)].svc + 1, attempt |-> 0]
             /\ RequestsTo(reqLog[Len(reqLog)].svc) = retry_attempts]_vars
    /\ []((pc = "gci_ret" /\ allTimedOut) =>
             RequestsTo(reqLog[Len(reqLog)].svc) = retry_attempts)

C9_Witness ==
    /\ pc = "gci" /\ allTimedOut
    /\ svc = 2 /\ attempt = 0 /\ RequestsTo(1) = 3 /\ Len(reqLog) = 3

\* C10: when every request fails, get_current_ip ends after exactly
\* len(ip_check_services) * retry_attempts requests and returns None; it
\* never raises; the rotation loop then goes on as after any rotation that
\* did not change the IP.
C10_AllFailReturnsNone ==
    /\ [](gciExit = "return")
    /\ []((pc = "gci_ret" /\ lastReq.kind # "accepted") =>
             /\ gciResult = None
             /\ Len(reqLog) = NumServices * retry_attempts)
    /\ [][/\ (pc = "gci_ret" /\ retSite = "loop" /\ gciResult = None /\ pc' # pc) =>
               /\ pc' = "loop_while"
               /\ changes' = changes /\ current_ip' = current_ip
               /\ ~(count' > 0 /\ changes' >= count')
          /\ (pc = "loop_while" /\ pc' # pc /\ running /\ ~(count > 0 /\ changes >= count)) =>
               pc' \in {"sleep"}]_vars

C10_Witness ==
    /\ pc = "gci_ret" /\ retSite = "loop" /\ gciResult = None
    /\ Len(reqLog) = 12 /\ lastReq.kind = "badbody" /\ running

\* text of a dotted quad: digits and dots only, four segments of one to three
\* digits, each at most 255
IsAddressText(s) ==
    /\ \A i \in 1..Len(s) : IsDigit(s[i]) \/ s[i] = "."
    /\ LET parts == Split(s, ".")
       IN  /\ Len(parts) = 4
           /\ \A i \in 1..4 : /\ Len(parts[i]) \in 1..3
                               /\ DigitsValue(parts[i], 0) <= 255

\* C11: whenever get_current_ip returns a result other than None, the value
\* returned is a syntactically valid dotted-quad IPv4 address; for an accepted
\* JSON body it is the first address of the origin list only.
C11_ReturnsAddress ==
    (pc = "gci_ret" /\ gciResult # None) => IsAddressText(gciResult)

\* the verdict of int() and the range test on the segments the bodies are
\* written from
SegmentInRange ==
    [seg \in SegTexts \cup {QUAD_OK[i] : i \in 1..4} \cup {QUAD_BIG[i] : i \in 1..4}
              \cup {<<"+", "1">>, <<" ", "7">>, <<"1", "_", "0">>, <<>>, <<"1", "e", "1">>} |->
        seg \in {<<"0">>, <<"2", "5", "5">>, <<"1">>, <<"1", "2", "3">>, <<"4", "5">>,
                 <<"6", "7">>, <<"8", "9">>, <<"+", "1">>, <<" ", "7">>,
                 <<"1", "_", "0">>}]

\* C12: _is_valid_ip accepts a bare body exactly when it has four
\* dot-separated segments each of which parses as an integer in 0..255: it
\* accepts "123.45.67.89", rejects "999.1.1.1", rejects fewer or more than
\* four segments and non-integer segments, and returns False rather than
\* raising on malformed JSON.
C12_ValidatorVerdict ==
    pc = "validated" =>
        /\ vParts # <<>> =>
              /\ vOut \in {"True", "False"}
              /\ vOut = "True" <=>
                    /\ Len(vParts) = 4
                    /\ \A i \in 1..4 : SegmentInRange[vParts[i]]
        /\ vIn = <<"1", "2", "3", ".", "4", "5", ".", "6", "7", ".", "8", "9">> => vOut = "True"
        /\ vIn = BODY_BIG => vOut = "False"
        /\ vIn \in MalformedJson => vOut = "False"

C12_Witness ==
    /\ pc = "validated" /\ vIn = BODY_BIG /\ vParts = QUAD_BIG /\ vOut = "False"

\* the rotation loop has been started and its value has not been returned yet
LoopStarted == pc \in {"loop_start", "loop_while", "sleep", "after_sleep", "summary"} \/ InRotation

\* answers that are not an integer within the range of the prompt
BadIntervalTexts == {<<"5">>, <<"3", "6", "0", "1">>, <<"a", "b", "c">>, <<>>}
BadCountTexts == {<<"1", "0", "0", "0", "0">>, <<"-", "1">>, <<" ", "0">>, <<"a", "b", "c">>}

\* a step that reads one answer at a prompt
PromptAnswered ==
    /\ pc \in {"prompt_interval", "prompt_count"}
    /\ pc' # pc \/ rejects' # rejects

\* C13: the interval the loop uses is within [min_interval, max_interval] (5
\* and 3601 are rejected) and the budget is 0 or within 1..9999; every
\* malformed or out-of-range answer is reported and the prompt repeated: it
\* never starts the loop and never ends the program.
C13_PromptsAcceptInRangeOnly ==
    /\ []((pc = "prompt_count" \/ LoopStarted) =>
             /\ interval >= min_interval /\ interval <= max_interval
             /\ interval \notin {5, 3601})
    /\ [](LoopStarted => count = 0 \/ (count >= 1 /\ count <= 9999))
    /\ [][(/\ PromptAnswered
           /\ \/ pc = "prompt_interval" /\ lastInput' \in BadIntervalTexts
              \/ pc = "prompt_count" /\ lastInput' \in BadCountTexts) =>
             /\ pc' = pc
             /\ rejects' = rejects + 1
             /\ UNCHANGED <<interval, count, running, changes, riResult, exitCode>>]_vars
    /\ [][(PromptAnswered /\ pc = "prompt_interval" /\ lastInput' = <<"1", "0">>) =>
             pc' = "prompt_count" /\ interval' = 10]_vars
    /\ [][(PromptAnswered /\ pc = "prompt_count" /\ lastInput' = <<"0">>) =>
             pc' = "loop_start" /\ count' = 0]_vars

C13_Witness ==
    /\ pc = "prompt_interval" /\ rejects = 1 /\ lastInput = <<"5">>
    /\ interval = 0 /\ exitCode = -1

\* an initialization step other than the permission probe has failed
InitFailed == initStatus \in {"sysreq", "deps", "tor", "selftest"}

\* C14: when check_system_requirements, ensure_dependencies,
\* ensure_tor_running or the connection self-test fails, no later
\* initialization step runs, no prompt is shown, the loop is never entered, no
\* reload or probe is issued, and the process exits with code 1.
C14_InitFailureAborts ==
    /\ [](InitFailed =>
             /\ pc \in {"ri_ret", "exited"}
             /\ ~riResult
             /\ pc = "exited" => exitCode = 1
             /\ lastInput = <<>> /\ interval = 0 /\ count = 0 /\ rejects = 0
             /\ ~running /\ changes = 0 /\ summaries = 0
             /\ ciLog = <<>> /\ reqLog = <<>> /\ retSite = "none")
    /\ [][InitFailed => UNCHANGED <<initStatus, startLog, testSite>>]_vars
    /\ (InitFailed ~> (pc = "exited" /\ exitCode = 1))

C14_Witness ==
    /\ initStatus = "selftest" /\ pc = "exited" /\ exitCode = 1

\* C15: a failure of check_permissions, the service-manager command being
\* unavailable included, is not fatal: initialize goes on to
\* ensure_tor_running.
C15_PermissionProbeNotFatal ==
    [][(pc = "init_perm" /\ pc' # pc) => pc' = "etr_query"]_vars

\* C16: when the service is not active the start methods are tried in the
\* order sudo systemctl start, systemctl --user start, tor; a failure of any
\* kind of one method falls through to the next, so the direct launch comes
\* only after both service-manager starts failed.
C16_StartOrder ==
    (startLog # <<>> /\ startLog[1] = "sudo") =>
        \A i \in 1..Len(startLog) :
            startLog[i] = "manual" => (i = 3 /\ startLog[2] = "user")

\* the loop ended on its budget
BudgetSpent == count > 0 /\ changes >= count

\* C17: the exit code is 0 exactly on graceful completion of the loop (budget
\* reached or shutdown signal) or on -h / --help, and 1 on an initialization
\* failure or any unhandled error; with -h / --help no controller is created,
\* nothing is initialized and no rotation runs.
C17_ExitCodes ==
    /\ pc = "exited" =>
          /\ exitCode \in {0, 1}
          /\ exitCode = 0 <=> (usagePrinted \/ summaries = 1)
          /\ (InitFailed \/ lastInput = EOF) => exitCode = 1
    /\ summaries \in {0, 1}
    /\ summaries = 1 => (signals > 0 \/ BudgetSpent)
    /\ usagePrinted =>
          /\ pc = "exited"
          /\ initStatus = "none" /\ startLog = <<>> /\ testSite = "none"
          /\ signals = 0 /\ ~running /\ current_ip = None
          /\ summaries = 0 /\ changes = 0 /\ interval = 0 /\ lastInput = <<>>
          /\ ciLog = <<>> /\ reqLog = <<>> /\ retSite = "none"

C17_Witness ==
    /\ pc = "exited" /\ exitCode = 0 /\ summaries = 1 /\ signals = 0
    /\ count = 2 /\ changes = 2

\* the variables _signal_handler does not write, signals and sleepSig (which
\* record that it ran) left aside
HandlerFrame ==
    <<pc, exitCode, riResult, current_ip, changes, count, interval, rejects,
      startLog, testSite, ciVars, gciVars, summaries, traceVars, pureVars, lastProbe>>

\* C18: the shutdown-signal handler changes only the running flag, which it
\* sets to false, and is idempotent: invoked at any suspension point, once or
\* repeatedly, it leaves the recorded IP, the change counter, the interval and
\* the budget unchanged.
C18_HandlerFrame ==
    [][signals' # signals =>
         /\ running' = FALSE
         /\ UNCHANGED HandlerFrame
         /\ ~running => UNCHANGED <<running, HandlerFrame>>]_vars

C18_Witness ==
    /\ signals = 2 /\ ~running
    /\ pc = "gci" /\ retSite = "loop" /\ changes = 1 /\ current_ip # None

\* the state of the controller; "Ended" is a process that ended, or is
\* ending, without having started the loop
Phase ==
    CASE pc \in {"loop_while", "sleep", "after_sleep"} -> "Idle"
      [] InRotation -> "Rotating"
      [] pc = "summary" \/ summaries = 1 -> "Stopped"
      [] pc \in {"ri_ret", "exited"} -> "Ended"
      [] OTHER -> "Initializing"

PhaseTransitions ==
    {<<"Initializing", "Idle">>, <<"Idle", "Rotating">>, <<"Rotating", "Idle">>,
     <<"Rotating", "Stopped">>, <<"Idle", "Stopped">>}

\* C19: the controller only follows Initializing -> Idle -> Rotating ->
\* Idle | Stopped, plus Idle -> Stopped on shutdown or budget (a start-up that
\* fails ends the process from Initializing); every rotation is immediately
\* preceded by one complete interval sleep; Stopped is terminal: after the
\* summary is printed no sleep, reload or probe occurs.
C19_Phases ==
    /\ [][Phase' # Phase =>
             \/ <<Phase, Phase'>> \in PhaseTransitions
             \/ Phase = "Initializing" /\ Phase' = "Ended"]_vars
    /\ [][(Phase = "Idle" /\ Phase' = "Stopped") =>
             ~running \/ BudgetSpent]_vars
    /\ [][(Phase' = "Rotating" /\ Phase # "Rotating") => pc = "after_sleep"]_vars
    /\ [][(pc' = "after_sleep" /\ pc # "after_sleep") => pc = "sleep"]_vars
    /\ [][(pc' = "sleep" /\ pc # "sleep") => pc = "loop_while"]_vars
    /\ [][Phase = "Stopped" =>
             /\ Phase' = "Stopped"
             /\ UNCHANGED <<ciLog, reqLog, lastReq, changes, current_ip>>]_vars
    /\ [][summaries = 1 => pc' \in {"ri_ret", "exited"} /\ summaries' = 1]_vars

C19_Witness ==
    /\ pc = "exited" /\ summaries = 1 /\ changes = 2 /\ signals = 1

\* C20: with a budget of 0 no value of the change counter ends the loop: it
\* ends only when a shutdown signal has cleared the running flag; the interval
\* and the budget read at start-up are not modified during the run.
C20_ZeroBudgetUnbounded ==
    /\ []((count = 0 /\ pc = "summary") => (~running /\ signals > 0))
    /\ [][(pc = "loop_while" /\ count = 0 /\ running /\ pc' # pc) => pc' = "sleep"]_vars
    /\ [][(LoopStarted /\ count = 0 /\ ~LoopStarted') => (~running /\ pc = "summary")]_vars
    /\ [][pc \notin {"prompt_interval", "prompt_count"} => UNCHANGED <<interval, count>>]_vars

C20_Witness ==
    /\ count = 0 /\ changes = 2 /\ pc = "sleep" /\ running /\ interval = 10

\* C21: in get_current_ip a failed attempt that is followed by another attempt
\* on the same service is separated from it by the backoff wait, whatever the
\* failure (exception, status other than 200, invalid body); no backoff is
\* taken after the last attempt on a service.
C21_BackoffBetweenAttempts ==
    /\ (pc = "gci" /\ attempt > 0) => lastReq.slept
    /\ (lastReq.kind # "none" /\ (attempt = 0 \/ pc = "gci_ret")) => ~lastReq.slept

\* C22: a shutdown signal is never lost: once the handler has run, at any
\* point after the constructor installed it (initialization, baseline probe
\* and prompts included), no rotation is started.
C22_SignalNeverLost ==
    [][(pc # "ci" /\ pc' = "ci") => signals = 0]_vars

\* C23: a shutdown signal handled while a rotation is in flight does not
\* cancel it: the rotation runs to its end, still counts a changed IP and
\* records it, and afterwards the loop ends without another interval sleep.
\* (changes < MaxCount: the counter of the rotation in flight can be written.)
C23_RotationNotCancelled ==
    /\ [][(InRotation /\ ~running /\ ~InRotation') => pc' = "loop_while"]_vars
    /\ [][(InRotation /\ ~running /\ pc = "gci_ret" /\ pc' # pc) =>
             IF gciResult # None /\ gciResult # current_ip
             THEN changes' = changes + 1 /\ current_ip' = gciResult
             ELSE UNCHANGED <<changes, current_ip>>]_vars
    /\ [][(InRotation /\ ~running /\ pc = "ci_ret" /\ pc' # pc) =>
             pc' = (IF ciResult THEN "gci" ELSE "loop_while")]_vars
    /\ [][(~running /\ pc # "sleep") => pc' # "sleep"]_vars
    /\ ((InRotation /\ ~running /\ changes < MaxCount) ~> pc = "summary")

C23_Witness ==
    /\ pc = "gci_ret" /\ retSite = "loop" /\ ~running /\ signals = 1
    /\ changes = 1 /\ current_ip = IP_A /\ gciResult = IP_B

\* the loop has started (line 370 has run) and has not ended
InLoop == pc \in {"loop_while", "sleep", "after_sleep"} \/ InRotation

\* a loop with a budget always ends; this does NOT hold: a rotation whose
\* probe returns the recorded IP, or none, can be repeated for ever
BudgetedLoopEnds == (InLoop /\ count > 0) ~> (pc = "summary")

\* C24: if every sleep, subprocess and request returns, a shutdown signal
\* handled after the loop has started leads to the summary and the end of the
\* process, after at most the interval sleep or the rotation in progress; with
\* a budget N > 0 and no signal the loop ends only after N probes returned a
\* changed IP: a rotation with an unchanged IP or none consumes no budget.
\* (changes < MaxCount: the counter of the rotation in flight can be written.)
C24_SignalLeadsToStopped ==
    /\ ((InLoop /\ ~running /\ (InRotation => changes < MaxCount)) ~>
            (pc = "exited" /\ summaries = 1 /\ exitCode = 0))
    /\ [][(InLoop /\ ~running) =>
             /\ ~(pc # "sleep" /\ pc' = "sleep")
             /\ ~(pc # "ci" /\ pc' = "ci")]_vars
    /\ []((pc = "summary" /\ count > 0 /\ signals = 0) => changes = count)
    /\ [][changes' # changes =>
             /\ changes' = changes + 1
             /\ pc = "gci_ret" /\ retSite = "loop"
             /\ gciResult # None /\ gciResult # current_ip]_vars

C24_Witness ==
    /\ pc = "exited" /\ summaries = 1 /\ exitCode = 0
    /\ signals = 1 /\ ~running /\ ~sleepSig /\ count = 2 /\ changes = 1

\* C25: a baseline probe that fails after a successful initialization is not
\* fatal: the prompts and the loop follow with no recorded IP, and the first
\* later rotation whose probe returns an IP counts as a change and records
\* it; at every point the recorded IP is absent or is the result of the most
\* recent probe that returned one.
C25_RecordedIp ==
    /\ [](current_ip = lastProbe)
    /\ [](pc = "gci_ret" => (gciResult = None \/ gciResult # <<>>))
    /\ [][(pc = "gci_ret" /\ retSite = "baseline" /\ gciResult = None /\ pc' # pc) =>
             /\ pc' = "prompt_interval"
             /\ current_ip' = None
             /\ UNCHANGED <<riResult, exitCode>>]_vars
    /\ [][(pc = "gci_ret" /\ retSite = "loop" /\ current_ip = None
           /\ gciResult # None /\ pc' # pc) =>
             /\ changes = 0
             /\ changes' = 1
             /\ current_ip' = gciResult]_vars

C25_Witness ==
    /\ pc = "gci_ret" /\ retSite = "loop" /\ running /\ initStatus = "ok"
    /\ current_ip = None /\ lastProbe = None /\ gciResult = IP_B /\ changes = 0

====
